---- MODULE Spec2Model ----
(***************************************************************************)
(* negroni-sessions: the Sessions middleware (sessions.go, both revisions  *)
(* of the file), the cookie store, the Mongo store and the dal store.      *)
(*                                                                         *)
(* A request is served in steps: it arrives (the middleware builds the     *)
(* lazy session wrapper and registers the before-write hook), the handler  *)
(* calls session methods and writes the response in any order, and the     *)
(* handler returns.  The first write of the response runs the hook, which  *)
(* saves the session when the written flag is set.                         *)
(*                                                                         *)
(* SpecStore is the Mongo and dal stores called directly: New, Save and    *)
(* the caller's changes to the session in hand, with the driver calls each *)
(* operation issues.                                                       *)
(*                                                                         *)
(* SpecOverlap is two requests that carry the same session cookie and are  *)
(* served at the same time with a backend store that holds the session.    *)
(***************************************************************************)
EXTENDS Integers, Sequences, FiniteSets, TLC

\* ---------------------------------------------------------------- bounds
NumReqs == 2      \* request slots (requests that can be in flight)
MaxOps == 2       \* session method calls a handler makes in one request
MaxFlash == 1     \* flash messages held under the flash key
MaxIds == 1       \* object ids the backend hands out

\* ------------------------------------------------------------ value sets
Reqs == 1..NumReqs
Keys == {"hello"}
Vals == {"world"}
Msgs == {"hello world"}
FlashKey == "_flash"
Nil == "nil"
SessName == "my_session"
HashKey == "secret123"
StoreKinds == {"cookie", "mongo", "dal"}
Revisions == {1, 2}
ModifiedKey == "modified"
Times == {"t1"}
Now == "now"

\* gorilla sessions.Options, the zero value
ZeroOptions ==
  [Path |-> "", Domain |-> "", MaxAge |-> 0, Secure |-> FALSE, HttpOnly |-> FALSE]

\* The sessions.Options values handlers and set-up code pass in.
OptionInputs ==
  { [Path |-> "/foo/bar/bat", Domain |-> "negroni-sessions.goincremental.com",
     MaxAge |-> 3600, Secure |-> TRUE, HTTPOnly |-> TRUE],
    [Path |-> "", Domain |-> "", MaxAge |-> -1,
     Secure |-> FALSE, HTTPOnly |-> FALSE] }

NoOptionsArg ==
  [Path |-> "-", Domain |-> "-", MaxAge |-> 0, Secure |-> FALSE, HTTPOnly |-> FALSE]

\* ------------------------------------------------------ session values
EmptyMap == [k \in {} |-> Nil]

MapPut(m, k, v) == [x \in (DOMAIN m) \cup {k} |-> IF x = k THEN v ELSE m[x]]

MapDel(m, k) == [x \in (DOMAIN m) \ {k} |-> m[x]]

MapGet(m, k) == IF k \in DOMAIN m THEN m[k] ELSE Nil

\* gorilla sessions.NewSession: empty Values, no ID, not yet IsNew
NewSession ==
  [ID |-> 0, Values |-> EmptyMap, ValuesNil |-> FALSE,
   Options |-> ZeroOptions, IsNew |-> FALSE]

\* ------------------------------------------------------------ the codec
\* securecookie.EncodeMulti: gob-serialise, then sign under the name with the
\* hash key.  A nil map is serialised as an empty map.  kind tells the
\* serialised type: "map" (session values) or "id" (a session ID string).
NoCookie == [kind |-> "none", name |-> "", vals |-> EmptyMap, id |-> 0, key |-> ""]

EmptyCookie == [kind |-> "empty", name |-> SessName, vals |-> EmptyMap, id |-> 0, key |-> ""]

ForgedCookie == [kind |-> "map", name |-> SessName, vals |-> EmptyMap, id |-> 0, key |-> "forged"]

Serialize(values, isNil) == IF isNil THEN EmptyMap ELSE values

EncodeValues(name, values, isNil) ==
  [kind |-> "map", name |-> name, vals |-> Serialize(values, isNil), id |-> 0, key |-> HashKey]

EncodeID(name, id) ==
  [kind |-> "id", name |-> name, vals |-> EmptyMap, id |-> id, key |-> HashKey]

\* securecookie.DecodeMulti succeeds when the signature verifies under the
\* name and the payload deserialises into the destination's type.
DecodeOK(name, c, kind) == c.kind = kind /\ c.name = name /\ c.key = HashKey

\* cookieToken.GetToken: the request has a cookie of that name
HasToken(c) == c.kind # "none"

\* ------------------------------------------------------------- options
cookieStoreOptions(o) ==
  [Path |-> o.Path, Domain |-> o.Domain, MaxAge |-> o.MaxAge,
   Secure |-> o.Secure, HttpOnly |-> o.HTTPOnly]

mongoStoreOptions(o) ==
  [Path |-> o.Path, Domain |-> o.Domain, MaxAge |-> o.MaxAge,
   Secure |-> o.Secure, HttpOnly |-> o.HTTPOnly]

dalStoreOptions(o) ==
  [Path |-> o.Path, Domain |-> o.Domain, MaxAge |-> o.MaxAge,
   Secure |-> o.Secure, HttpOnly |-> o.HTTPOnly]

\* Store.Options of the store in use
StoreOptionsOf(kind, o) ==
  CASE kind = "cookie" -> cookieStoreOptions(o)
    [] kind = "mongo" -> mongoStoreOptions(o)
    [] kind = "dal" -> dalStoreOptions(o)

\* The options a freshly constructed store holds: gorilla's NewCookieStore
\* sets Path "/" and thirty days; the Mongo and dal constructors keep only
\* the maxAge argument.
cookiestoreNew == [ZeroOptions EXCEPT !.Path = "/", !.MaxAge = 2592000]

mongostoreNew(maxAge) == [ZeroOptions EXCEPT !.MaxAge = maxAge]

dalstoreNew(maxAge) == [ZeroOptions EXCEPT !.MaxAge = maxAge]

ConstructStore(kind, maxAge) ==
  CASE kind = "cookie" -> cookiestoreNew
    [] kind = "mongo" -> mongostoreNew(maxAge)
    [] kind = "dal" -> dalstoreNew(maxAge)

\* ------------------------------------------------------------- backend
\* A collection document: Data is the encoded values, Modified a time.
NoDoc == [present |-> FALSE, Data |-> NoCookie, Modified |-> "-"]

NoError == ""

\* bson.IsObjectIdHex / dal.IsObjectIDHex: ids 1..MaxIds stand for the hex
\* strings of generated object ids, 0 for the empty string.
IsObjectIdHex(id) == id \in 1..MaxIds

\* What an operation does with the driver, in order: "Clone" and "Close" of
\* a connection, and the calls issued on the collection.
NoEvents == << >>

Count(events, e) == Cardinality({i \in 1..Len(events) : events[i] = e})

\* The connections a sequence of events leaves open: cloned and not closed
Opened(events) == Count(events, "Clone") - Count(events, "Close")

\* load that closes the connection only after a find that met a document
load_LeaksOnError(session, docs, fault) ==
  IF ~IsObjectIdHex(session.ID)
    THEN [ok |-> FALSE, err |-> "ErrInvalidId", session |-> session, events |-> NoEvents]
  ELSE IF fault
    THEN [ok |-> FALSE, err |-> "driver", session |-> session,
          events |-> <<"Clone", "FindId">>]
  ELSE IF ~docs[session.ID].present
    THEN [ok |-> FALSE, err |-> "ErrNotFound", session |-> session,
          events |-> <<"Clone", "FindId">>]
  ELSE IF ~DecodeOK(SessName, docs[session.ID].Data, "map")
    THEN [ok |-> FALSE, err |-> "decode", session |-> session,
          events |-> <<"Clone", "FindId", "Close">>]
  ELSE [ok |-> TRUE, err |-> NoError,
        session |-> [session EXCEPT !.Values = docs[session.ID].Data.vals],
        events |-> <<"Clone", "FindId", "Close">>]

\* load that reports a missing document as found
load_FindsMissing(session, docs, fault) ==
  IF ~IsObjectIdHex(session.ID)
    THEN [ok |-> FALSE, err |-> "ErrInvalidId", session |-> session, events |-> NoEvents]
  ELSE IF fault
    THEN [ok |-> FALSE, err |-> "driver", session |-> session,
          events |-> <<"Clone", "FindId", "Close">>]
  ELSE IF ~docs[session.ID].present
    THEN [ok |-> TRUE, err |-> NoError, session |-> session,
          events |-> <<"Clone", "FindId", "Close">>]
  ELSE IF ~DecodeOK(SessName, docs[session.ID].Data, "map")
    THEN [ok |-> FALSE, err |-> "decode", session |-> session,
          events |-> <<"Clone", "FindId", "Close">>]
  ELSE [ok |-> TRUE, err |-> NoError,
        session |-> [session EXCEPT !.Values = docs[session.ID].Data.vals],
        events |-> <<"Clone", "FindId", "Close">>]

\* mongoStore.load / dalStore.load: (ok, err) and the values decoded into
\* the session.  fault: the driver's find fails.
load(session, docs, fault) ==
  IF ~IsObjectIdHex(session.ID)
    THEN [ok |-> FALSE, err |-> "ErrInvalidId", session |-> session, events |-> NoEvents]
  ELSE IF fault
    THEN [ok |-> FALSE, err |-> "driver", session |-> session,
          events |-> <<"Clone", "FindId", "Close">>]
  ELSE IF ~docs[session.ID].present
    THEN [ok |-> FALSE, err |-> "ErrNotFound", session |-> session,
          events |-> <<"Clone", "FindId", "Close">>]
  ELSE IF ~DecodeOK(SessName, docs[session.ID].Data, "map")
    THEN [ok |-> FALSE, err |-> "decode", session |-> session,
          events |-> <<"Clone", "FindId", "Close">>]
  ELSE [ok |-> TRUE, err |-> NoError,
        session |-> [session EXCEPT !.Values = docs[session.ID].Data.vals],
        events |-> <<"Clone", "FindId", "Close">>]

\* The "modified" entry of the session's values, when it has one
HasModified(session) == ~session.ValuesNil /\ ModifiedKey \in DOMAIN session.Values

\* The document's Modified: the entry when it is a time, the current time
\* when there is no entry.
ModifiedOf(session) == IF HasModified(session) THEN session.Values[ModifiedKey] ELSE Now

\* dalStore.save clones the connection before it looks at "modified",
\* mongoStore.save after it has encoded the values.
CloneFirst(kind) == kind = "dal"

\* save that stores whatever the "modified" entry holds
save_AnyModified(kind, session, docs, fault) ==
  IF ~IsObjectIdHex(session.ID)
    THEN [err |-> "ErrInvalidId", docs |-> docs, events |-> NoEvents]
  ELSE IF fault
    THEN [err |-> "driver", docs |-> docs, events |-> <<"Clone", "UpsertId", "Close">>]
  ELSE [err |-> NoError,
        docs |-> [docs EXCEPT ![session.ID] =
                    [present |-> TRUE,
                     Data |-> EncodeValues(SessName, session.Values, session.ValuesNil),
                     Modified |-> ModifiedOf(session)]],
        events |-> <<"Clone", "UpsertId", "Close">>]

\* save that clones the connection before it checks the ID
save_ClonesFirst(kind, session, docs, fault) ==
  IF ~IsObjectIdHex(session.ID)
    THEN [err |-> "ErrInvalidId", docs |-> docs, events |-> <<"Clone", "Close">>]
  ELSE IF HasModified(session) /\ session.Values[ModifiedKey] \notin Times
    THEN [err |-> "ErrInvalidModified", docs |-> docs, events |-> <<"Clone", "Close">>]
  ELSE IF fault
    THEN [err |-> "driver", docs |-> docs, events |-> <<"Clone", "UpsertId", "Close">>]
  ELSE [err |-> NoError,
        docs |-> [docs EXCEPT ![session.ID] =
                    [present |-> TRUE,
                     Data |-> EncodeValues(SessName, session.Values, session.ValuesNil),
                     Modified |-> ModifiedOf(session)]],
        events |-> <<"Clone", "UpsertId", "Close">>]

\* save that upserts a document encoding no value
save_EmptyData(kind, session, docs, fault) ==
  IF ~IsObjectIdHex(session.ID)
    THEN [err |-> "ErrInvalidId", docs |-> docs, events |-> NoEvents]
  ELSE IF HasModified(session) /\ session.Values[ModifiedKey] \notin Times
    THEN [err |-> "ErrInvalidModified", docs |-> docs,
          events |-> IF CloneFirst(kind) THEN <<"Clone", "Close">> ELSE NoEvents]
  ELSE IF fault
    THEN [err |-> "driver", docs |-> docs, events |-> <<"Clone", "UpsertId", "Close">>]
  ELSE [err |-> NoError,
        docs |-> [docs EXCEPT ![session.ID] =
                    [present |-> TRUE,
                     Data |-> EncodeValues(SessName, EmptyMap, FALSE),
                     Modified |-> ModifiedOf(session)]],
        events |-> <<"Clone", "UpsertId", "Close">>]

\* save that keeps the entries of the stored document the session lacks
save_Merges(kind, session, docs, fault) ==
  IF ~IsObjectIdHex(session.ID)
    THEN [err |-> "ErrInvalidId", docs |-> docs, events |-> NoEvents]
  ELSE IF HasModified(session) /\ session.Values[ModifiedKey] \notin Times
    THEN [err |-> "ErrInvalidModified", docs |-> docs,
          events |-> IF CloneFirst(kind) THEN <<"Clone", "Close">> ELSE NoEvents]
  ELSE IF fault
    THEN [err |-> "driver", docs |-> docs, events |-> <<"Clone", "UpsertId", "Close">>]
  ELSE LET old == docs[session.ID].Data.vals
           new == Serialize(session.Values, session.ValuesNil)
       IN [err |-> NoError,
           docs |-> [docs EXCEPT ![session.ID] =
                       [present |-> TRUE,
                        Data |-> EncodeValues(SessName,
                                   [k \in DOMAIN old \cup DOMAIN new |->
                                      IF k \in DOMAIN new THEN new[k] ELSE old[k]],
                                   FALSE),
                        Modified |-> ModifiedOf(session)]],
           events |-> <<"Clone", "UpsertId", "Close">>]

\* mongoStore.save / dalStore.save: upsert the encoded values under the ID
save(kind, session, docs, fault) ==
  IF ~IsObjectIdHex(session.ID)
    THEN [err |-> "ErrInvalidId", docs |-> docs, events |-> NoEvents]
  ELSE IF HasModified(session) /\ session.Values[ModifiedKey] \notin Times
    THEN [err |-> "ErrInvalidModified", docs |-> docs,
          events |-> IF CloneFirst(kind) THEN <<"Clone", "Close">> ELSE NoEvents]
  ELSE IF fault
    THEN [err |-> "driver", docs |-> docs, events |-> <<"Clone", "UpsertId", "Close">>]
  ELSE [err |-> NoError,
        docs |-> [docs EXCEPT ![session.ID] =
                    [present |-> TRUE,
                     Data |-> EncodeValues(SessName, session.Values, session.ValuesNil),
                     Modified |-> ModifiedOf(session)]],
        events |-> <<"Clone", "UpsertId", "Close">>]

\* delete that reports success and leaves the document in place
delete_KeepsDoc(session, docs, fault) ==
  IF ~IsObjectIdHex(session.ID)
    THEN [err |-> "ErrInvalidId", docs |-> docs, events |-> NoEvents]
  ELSE IF fault
    THEN [err |-> "driver", docs |-> docs, events |-> <<"Clone", "RemoveId", "Close">>]
  ELSE IF ~docs[session.ID].present
    THEN [err |-> "ErrNotFound", docs |-> docs, events |-> <<"Clone", "RemoveId", "Close">>]
  ELSE [err |-> NoError, docs |-> docs, events |-> <<"Clone", "RemoveId", "Close">>]

\* mongoStore.delete / dalStore.delete: RemoveId reports a missing document
delete(session, docs, fault) ==
  IF ~IsObjectIdHex(session.ID)
    THEN [err |-> "ErrInvalidId", docs |-> docs, events |-> NoEvents]
  ELSE IF fault
    THEN [err |-> "driver", docs |-> docs, events |-> <<"Clone", "RemoveId", "Close">>]
  ELSE IF ~docs[session.ID].present
    THEN [err |-> "ErrNotFound", docs |-> docs, events |-> <<"Clone", "RemoveId", "Close">>]
  ELSE [err |-> NoError, docs |-> [docs EXCEPT ![session.ID] = NoDoc],
        events |-> <<"Clone", "RemoveId", "Close">>]

\* --------------------------------------------------------------- New
\* The options New gives the new session.
mongoNewOptions(opts) == [ZeroOptions EXCEPT !.Path = opts.Path, !.MaxAge = opts.MaxAge]

dalNewOptions(opts) == opts

cookieNewOptions(opts) == opts

NewOptions(kind, opts) ==
  CASE kind = "cookie" -> cookieNewOptions(opts)
    [] kind = "mongo" -> mongoNewOptions(opts)
    [] kind = "dal" -> dalNewOptions(opts)

\* gorilla CookieStore.New: the values are decoded from the cookie itself
cookieStoreNew(opts, c) ==
  LET session == [NewSession EXCEPT !.Options = cookieNewOptions(opts), !.IsNew = TRUE]
  IN IF ~HasToken(c) THEN [session |-> session, err |-> NoError, loadErr |-> NoError]
     ELSE IF DecodeOK(SessName, c, "map")
       THEN [session |-> [session EXCEPT !.Values = c.vals, !.IsNew = FALSE],
             err |-> NoError, loadErr |-> NoError]
     ELSE [session |-> session, err |-> "decode", loadErr |-> NoError]

\* New that assigns load's error to the error it returns
backendStoreNew_ReturnsLoadErr(kind, opts, c, docs, fault) ==
  LET session == [NewSession EXCEPT !.Options = NewOptions(kind, opts), !.IsNew = TRUE]
  IN IF ~HasToken(c)
       THEN [session |-> session, err |-> NoError, loadErr |-> NoError]
     ELSE IF DecodeOK(SessName, c, "id")
       THEN LET l == load([session EXCEPT !.ID = c.id], docs, fault)
            IN [session |-> [l.session EXCEPT !.IsNew = ~(l.err = NoError /\ l.ok)],
                err |-> l.err, loadErr |-> l.err]
     ELSE [session |-> session, err |-> "decode", loadErr |-> NoError]

\* mongoStore.New / dalStore.New: the cookie carries the ID, load fetches the
\* values.  The inner "ok, err :=" declares a new err (loadErr here), so the
\* error New returns is the cookie decoding's.
backendStoreNew(kind, opts, c, docs, fault) ==
  LET session == [NewSession EXCEPT !.Options = NewOptions(kind, opts), !.IsNew = TRUE]
  IN IF ~HasToken(c)
       THEN [session |-> session, err |-> NoError, loadErr |-> NoError]
     ELSE IF DecodeOK(SessName, c, "id")
       THEN LET l == load([session EXCEPT !.ID = c.id], docs, fault)
            IN [session |-> [l.session EXCEPT !.IsNew = ~(l.err = NoError /\ l.ok)],
                err |-> NoError, loadErr |-> l.err]
     ELSE [session |-> session, err |-> "decode", loadErr |-> NoError]

StoreNew(kind, opts, c, docs, fault) ==
  IF kind = "cookie" THEN cookieStoreNew(opts, c)
  ELSE backendStoreNew(kind, opts, c, docs, fault)

\* --------------------------------------------------------------- Save
\* The Set-Cookie header of a response
NoResp == [set |-> FALSE, value |-> NoCookie, attrs |-> ZeroOptions]

\* cookieToken.SetToken: http.SetCookie of sessions.NewCookie(name, value, options)
SetToken(value, options) == [set |-> TRUE, value |-> value, attrs |-> options]

\* gorilla CookieStore.Save: the cookie is the encoded values
cookieStoreSave(session, docs, nextId) ==
  [session |-> session, docs |-> docs, nextId |-> nextId, err |-> NoError,
   resp |-> SetToken(EncodeValues(SessName, session.Values, session.ValuesNil),
                     session.Options)]

\* Save that stores under a generated ID and leaves the session without it
backendStoreSave_DropsId(kind, session, docs, nextId, fault) ==
  IF session.Options.MaxAge < 0
    THEN LET d == delete(session, docs, fault)
         IN IF d.err # NoError
              THEN [session |-> session, docs |-> docs, nextId |-> nextId,
                    err |-> d.err, resp |-> NoResp]
              ELSE [session |-> session, docs |-> d.docs, nextId |-> nextId,
                    err |-> NoError, resp |-> SetToken(EmptyCookie, session.Options)]
  ELSE LET fresh == session.ID = 0
           s1 == IF fresh THEN [session EXCEPT !.ID = nextId] ELSE session
           n1 == IF fresh THEN nextId + 1 ELSE nextId
           sv == save(kind, s1, docs, fault)
       IN IF sv.err # NoError
            THEN [session |-> session, docs |-> docs, nextId |-> n1,
                  err |-> sv.err, resp |-> NoResp]
            ELSE [session |-> session, docs |-> sv.docs, nextId |-> n1,
                  err |-> NoError,
                  resp |-> SetToken(EncodeID(SessName, s1.ID), s1.Options)]

\* Save that writes the cookie whether or not the backend call succeeded
backendStoreSave_CookieAnyway(kind, session, docs, nextId, fault) ==
  IF session.Options.MaxAge < 0
    THEN LET d == delete(session, docs, fault)
         IN [session |-> session, docs |-> d.docs, nextId |-> nextId,
             err |-> d.err, resp |-> SetToken(EmptyCookie, session.Options)]
  ELSE LET fresh == session.ID = 0
           s1 == IF fresh THEN [session EXCEPT !.ID = nextId] ELSE session
           n1 == IF fresh THEN nextId + 1 ELSE nextId
           sv == save(kind, s1, docs, fault)
       IN [session |-> s1, docs |-> sv.docs, nextId |-> n1, err |-> sv.err,
           resp |-> SetToken(EncodeID(SessName, s1.ID), s1.Options)]

\* mongoStore.Save / dalStore.Save
backendStoreSave(kind, session, docs, nextId, fault) ==
  IF session.Options.MaxAge < 0
    THEN LET d == delete(session, docs, fault)
         IN IF d.err # NoError
              THEN [session |-> session, docs |-> docs, nextId |-> nextId,
                    err |-> d.err, resp |-> NoResp]
              ELSE [session |-> session, docs |-> d.docs, nextId |-> nextId,
                    err |-> NoError, resp |-> SetToken(EmptyCookie, session.Options)]
  ELSE LET fresh == session.ID = 0
           s1 == IF fresh THEN [session EXCEPT !.ID = nextId] ELSE session
           n1 == IF fresh THEN nextId + 1 ELSE nextId
           sv == save(kind, s1, docs, fault)
       IN IF sv.err # NoError
            THEN [session |-> s1, docs |-> docs, nextId |-> n1,
                  err |-> sv.err, resp |-> NoResp]
            ELSE [session |-> s1, docs |-> sv.docs, nextId |-> n1,
                  err |-> NoError,
                  resp |-> SetToken(EncodeID(SessName, s1.ID), s1.Options)]

StoreSave(kind, session, docs, nextId, fault) ==
  IF kind = "cookie" THEN cookieStoreSave(session, docs, nextId)
  ELSE backendStoreSave(kind, session, docs, nextId, fault)

\* ------------------------------------------------------------ requests
VARIABLES
  rev,        \* which revision of sessions.go is built (1: lines 1-183, 2: 185-396)
  storeKind,  \* the store handed to Sessions
  nameValid,  \* whether the session name is a valid cookie name
  storeOpts,  \* the store's options field
  docs,       \* the backend collection, by object id
  nextId,     \* the next object id NewObjectId returns
  jar,        \* the client's cookie: the value of the last Set-Cookie it received
  req,        \* per request slot: the middleware's session wrapper and the response
  last        \* the last call made on the store directly, and the session it handled

vars == <<rev, storeKind, nameValid, storeOpts, docs, nextId, jar, req, last>>

NoCall == [op |-> "", key |-> "", ret |-> Nil, flashes |-> <<>>]

NoMut == [op |-> "", val |-> Nil]

AllKeys == Keys \cup {FlashKey}

NoLog == [k \in AllKeys |-> NoMut]

NoSnapshot == [taken |-> FALSE, written |-> FALSE, mut |-> NoLog, optsArg |-> NoOptionsArg]

\* What is on record, while a request is served, of the request whose
\* response set the cookie it carries: its mutations up to its first write
\* and the session its Save was handed.
NoPrior == [known |-> FALSE, atWrite |-> NoLog, saved |-> EmptyMap, id |-> 0]

\* s := &session{name, r, store, nil, false}, an unwritten response, and the
\* record of what the handler called: nops counts its session method calls,
\* others tells whether one of them was not Get, lastCall is the latest call
\* with what it returned, mut the latest completed mutating call per key
\* (with the value it set, added or removed),
\* optsArg the latest Options argument, atWrite those as they were at the
\* first write.  getErr and loadErr are the errors of store.Get and of the
\* load inside New, saveArg the values the store's Save was handed.
\* No wrapper: what GetSession returns when the context holds none
NoRef == 0

IdleReq ==
  [phase |-> "idle", cookie |-> NoCookie, via |-> FALSE, ctx |-> NoRef,
   hasSess |-> FALSE, sess |-> NewSession, written |-> FALSE,
   registry |-> FALSE, getCalls |-> 0, getErr |-> NoError, loadErr |-> NoError,
   headerSent |-> FALSE, resp |-> NoResp,
   saveCalls |-> 0, saveErr |-> NoError, saveArg |-> EmptyMap,
   nops |-> 0, others |-> FALSE, lastCall |-> NoCall, mut |-> NoLog,
   optsArg |-> NoOptionsArg, atWrite |-> NoSnapshot, prior |-> NoPrior]

\* A session method call that panics
Panic(q, op) ==
  [q EXCEPT !.phase = "panic", !.nops = @ + 1, !.others = @ \/ op # "Get"]

\* session.Session that asks the store again on every call
sessionSession_Reloads(q, kind, opts, valid, dcs, fault) ==
  IF ~valid THEN [q EXCEPT !.getCalls = @ + 1, !.getErr = "invalid name"]
  ELSE LET n == StoreNew(kind, opts, q.cookie, dcs, fault)
       IN [q EXCEPT !.getCalls = @ + 1, !.hasSess = TRUE, !.registry = TRUE,
                    !.sess = IF q.hasSess THEN @ ELSE n.session,
                    !.getErr = n.err, !.loadErr = n.loadErr]

\* session.Session: the lazy load.  store.Get is gorilla's Registry.Get: nil
\* for an invalid cookie name, else the session New returns.
sessionSession(q, kind, opts, valid, dcs, fault) ==
  IF q.hasSess THEN q
  ELSE IF ~valid THEN [q EXCEPT !.getCalls = @ + 1, !.getErr = "invalid name"]
  ELSE LET n == StoreNew(kind, opts, q.cookie, dcs, fault)
       IN [q EXCEPT !.getCalls = @ + 1, !.hasSess = TRUE, !.registry = TRUE,
                    !.sess = n.session, !.getErr = n.err, !.loadErr = n.loadErr]

Called(q, op, key, ret, flashes) ==
  [q EXCEPT !.nops = @ + 1, !.others = @ \/ op # "Get",
            !.lastCall = [op |-> op, key |-> key, ret |-> ret, flashes |-> flashes]]

Logged(q, k, op, val) == [q EXCEPT !.mut[k] = [op |-> op, val |-> val]]

\* session.Get; q is the wrapper after s.Session()
sessionGet(rv, q, k) ==
  IF ~q.hasSess
    THEN IF rv = 1 THEN Panic(q, "Get") ELSE Called(q, "Get", k, Nil, <<>>)
  ELSE Called(q, "Get", k, MapGet(q.sess.Values, k), <<>>)

\* session.Set that marks the session written but stores nothing
sessionSet_NoStore(rv, q, k, v) ==
  IF ~q.hasSess
    THEN IF rv = 1 THEN Panic(q, "Set") ELSE Called(q, "Set", k, Nil, <<>>)
  ELSE IF q.sess.ValuesNil THEN Panic(q, "Set")
  ELSE Logged(Called([q EXCEPT !.written = TRUE], "Set", k, Nil, <<>>), k, "Set", v)

\* session.Set: an assignment into a nil map panics
sessionSet(rv, q, k, v) ==
  IF ~q.hasSess
    THEN IF rv = 1 THEN Panic(q, "Set") ELSE Called(q, "Set", k, Nil, <<>>)
  ELSE IF q.sess.ValuesNil THEN Panic(q, "Set")
  ELSE Logged(Called([q EXCEPT !.sess.Values = MapPut(@, k, v), !.written = TRUE],
                     "Set", k, Nil, <<>>), k, "Set", v)

\* session.Delete that marks the session written and deletes nothing
sessionDelete_KeepsKey(rv, q, k) ==
  IF ~q.hasSess
    THEN IF rv = 1 THEN Panic(q, "Delete") ELSE Called(q, "Delete", k, Nil, <<>>)
  ELSE Logged(Called([q EXCEPT !.written = TRUE], "Delete", k, Nil, <<>>), k, "Delete", MapGet(q.sess.Values, k))

\* session.Delete that forgets to mark the session written
sessionDelete_NotWritten(rv, q, k) ==
  IF ~q.hasSess
    THEN IF rv = 1 THEN Panic(q, "Delete") ELSE Called(q, "Delete", k, Nil, <<>>)
  ELSE Logged(Called([q EXCEPT !.sess.Values = MapDel(@, k)],
                     "Delete", k, Nil, <<>>), k, "Delete", MapGet(q.sess.Values, k))

\* session.Delete
sessionDelete(rv, q, k) ==
  IF ~q.hasSess
    THEN IF rv = 1 THEN Panic(q, "Delete") ELSE Called(q, "Delete", k, Nil, <<>>)
  ELSE Logged(Called([q EXCEPT !.sess.Values = MapDel(@, k), !.written = TRUE],
                     "Delete", k, Nil, <<>>), k, "Delete", MapGet(q.sess.Values, k))

\* session.Clear that marks the session written and leaves the values
sessionClear_KeepsValues(rv, q) ==
  IF ~q.hasSess
    THEN IF rv = 1 THEN Panic(q, "Clear") ELSE Called(q, "Clear", "", Nil, <<>>)
  ELSE [Called(q, "Clear", "", Nil, <<>>)
          EXCEPT !.written = TRUE,
                 !.mut = [k \in AllKeys |->
                            [op |-> "Clear",
                             val |-> IF k \in Keys THEN MapGet(q.sess.Values, k) ELSE Nil]]]

\* session.Clear: revision 1 deletes key by key (and marks the session
\* written only when there is a key), revision 2 drops the map and clears
\* the request's gorilla context, where the registry lives.
sessionClear(rv, q) ==
  IF ~q.hasSess
    THEN IF rv = 1 THEN Panic(q, "Clear") ELSE Called(q, "Clear", "", Nil, <<>>)
  ELSE LET c == Called(q, "Clear", "", Nil, <<>>)
           cleared(k) == [op |-> "Clear",
                          val |-> IF k \in Keys THEN MapGet(q.sess.Values, k) ELSE Nil]
       IN IF rv = 1
            THEN [c EXCEPT !.sess.Values = EmptyMap,
                           !.written = @ \/ (DOMAIN q.sess.Values # {}),
                           !.mut = [k \in AllKeys |->
                                      IF k \in DOMAIN q.sess.Values THEN cleared(k) ELSE @[k]]]
            ELSE [c EXCEPT !.sess.Values = EmptyMap, !.sess.ValuesNil = TRUE,
                           !.written = TRUE, !.registry = FALSE,
                           !.mut = [k \in AllKeys |-> cleared(k)]]

\* session.AddFlash: gorilla's AddFlash appends under the flash key
sessionAddFlash(rv, q, m) ==
  IF ~q.hasSess
    THEN IF rv = 1 THEN Panic(q, "AddFlash") ELSE Called(q, "AddFlash", "", Nil, <<>>)
  ELSE IF q.sess.ValuesNil THEN Panic(q, "AddFlash")
  ELSE Logged(Called([q EXCEPT !.sess.Values =
                           MapPut(@, FlashKey,
                                  Append(IF FlashKey \in DOMAIN @ THEN @[FlashKey] ELSE <<>>, m)),
                         !.written = TRUE],
                     "AddFlash", "", Nil, <<>>), FlashKey, "AddFlash", m)

\* The latest message in the flash list of values, nil when there is none
LastFlash(values) ==
  IF FlashKey \in DOMAIN values /\ values[FlashKey] # <<>>
    THEN values[FlashKey][Len(values[FlashKey])] ELSE Nil

\* session.Flashes that returns the list and leaves it in the session
sessionFlashes_KeepsList(rv, q) ==
  IF ~q.hasSess
    THEN IF rv = 1 THEN Panic([q EXCEPT !.written = TRUE], "Flashes")
         ELSE Called(q, "Flashes", "", Nil, <<>>)
  ELSE Logged(Called([q EXCEPT !.written = TRUE], "Flashes", "", Nil,
                     IF FlashKey \in DOMAIN q.sess.Values
                       THEN q.sess.Values[FlashKey] ELSE <<>>),
              FlashKey, "Flashes", LastFlash(q.sess.Values))

\* session.Flashes that marks the session written only when it returns a flash
sessionFlashes_WrittenIfAny(rv, q) ==
  IF ~q.hasSess
    THEN IF rv = 1 THEN Panic([q EXCEPT !.written = TRUE], "Flashes")
         ELSE Called(q, "Flashes", "", Nil, <<>>)
  ELSE Logged(Called([q EXCEPT !.sess.Values = MapDel(@, FlashKey),
                               !.written = @ \/ LastFlash(q.sess.Values) # Nil],
                     "Flashes", "", Nil,
                     IF FlashKey \in DOMAIN q.sess.Values
                       THEN q.sess.Values[FlashKey] ELSE <<>>),
              FlashKey, "Flashes", LastFlash(q.sess.Values))

\* session.Flashes: gorilla's Flashes returns the list and deletes the key.
\* Revision 1 sets written before it reaches the session.
sessionFlashes(rv, q) ==
  IF ~q.hasSess
    THEN IF rv = 1 THEN Panic([q EXCEPT !.written = TRUE], "Flashes")
         ELSE Called(q, "Flashes", "", Nil, <<>>)
  ELSE Logged(Called([q EXCEPT !.sess.Values = MapDel(@, FlashKey), !.written = TRUE],
                     "Flashes", "", Nil,
                     IF FlashKey \in DOMAIN q.sess.Values
                       THEN q.sess.Values[FlashKey] ELSE <<>>),
              FlashKey, "Flashes", LastFlash(q.sess.Values))

\* session.Options that leaves the Path of the session's options as it was
sessionOptions_KeepsPath(rv, q, o) ==
  IF ~q.hasSess
    THEN IF rv = 1 THEN Panic(q, "Options") ELSE Called(q, "Options", "", Nil, <<>>)
  ELSE Called([q EXCEPT !.sess.Options =
                          [Path |-> @.Path, Domain |-> o.Domain, MaxAge |-> o.MaxAge,
                           Secure |-> o.Secure, HttpOnly |-> o.HTTPOnly],
                        !.optsArg = o],
              "Options", "", Nil, <<>>)

\* session.Options that marks the session written
sessionOptions_MarksWritten(rv, q, o) ==
  IF ~q.hasSess
    THEN IF rv = 1 THEN Panic(q, "Options") ELSE Called(q, "Options", "", Nil, <<>>)
  ELSE Called([q EXCEPT !.sess.Options =
                          [Path |-> o.Path, Domain |-> o.Domain, MaxAge |-> o.MaxAge,
                           Secure |-> o.Secure, HttpOnly |-> o.HTTPOnly],
                        !.optsArg = o, !.written = TRUE],
              "Options", "", Nil, <<>>)

\* session.Options
sessionOptions(rv, q, o) ==
  IF ~q.hasSess
    THEN IF rv = 1 THEN Panic(q, "Options") ELSE Called(q, "Options", "", Nil, <<>>)
  ELSE Called([q EXCEPT !.sess.Options =
                          [Path |-> o.Path, Domain |-> o.Domain, MaxAge |-> o.MaxAge,
                           Secure |-> o.Secure, HttpOnly |-> o.HTTPOnly],
                        !.optsArg = o],
              "Options", "", Nil, <<>>)

\* session.Written that reports every session as written
Written_Always(q) == TRUE

\* session.Written
Written(q) == q.written

\* A before-write hook that calls Save a second time on the saved session
BeforeHook_SavesTwice(q, kind, opts, valid, dcs, nid, fault) ==
  IF ~Written(q) THEN [q |-> q, docs |-> dcs, nextId |-> nid]
  ELSE LET q1 == sessionSession(q, kind, opts, valid, dcs, fault)
       IN IF ~q1.hasSess THEN [q |-> [q1 EXCEPT !.phase = "panic"], docs |-> dcs, nextId |-> nid]
          ELSE LET s1 == StoreSave(kind, q1.sess, dcs, nid, fault)
                   sv == StoreSave(kind, s1.session, s1.docs, s1.nextId, fault)
               IN [q |-> [q1 EXCEPT !.sess = sv.session, !.resp = sv.resp,
                                     !.saveCalls = @ + 2, !.saveErr = sv.err,
                                     !.saveArg = Serialize(q1.sess.Values, q1.sess.ValuesNil)],
                   docs |-> sv.docs, nextId |-> sv.nextId]

\* The before-write hook Sessions registers: save when written.  The result
\* carries the backend as the save leaves it.
BeforeHook(q, kind, opts, valid, dcs, nid, fault) ==
  IF ~Written(q) THEN [q |-> q, docs |-> dcs, nextId |-> nid]
  ELSE LET q1 == sessionSession(q, kind, opts, valid, dcs, fault)
       IN IF ~q1.hasSess THEN [q |-> [q1 EXCEPT !.phase = "panic"], docs |-> dcs, nextId |-> nid]
          ELSE LET sv == StoreSave(kind, q1.sess, dcs, nid, fault)
               IN [q |-> [q1 EXCEPT !.sess = sv.session, !.resp = sv.resp,
                                     !.saveCalls = @ + 1, !.saveErr = sv.err,
                                     !.saveArg = Serialize(q1.sess.Values, q1.sess.ValuesNil)],
                   docs |-> sv.docs, nextId |-> sv.nextId]

\* The record of a call made on the store: the session in hand, what the
\* call was given and what it returned, and the backend as the call met it.
NoOp ==
  [name |-> "none", has |-> FALSE, session |-> NewSession, cookie |-> NoCookie,
   fault |-> FALSE, err |-> NoError, loadErr |-> NoError, resp |-> NoResp,
   events |-> NoEvents, before |-> [i \in 1..MaxIds |-> NoDoc], given |-> NewSession,
   saved |-> FALSE, savedValues |-> EmptyMap, removed |-> {},
   deleted |-> {}, open |-> 0]

\* -------------------------------------------------------------- actions
InFlight(r) == req[r].phase \in {"handler", "panic"}

Serial == \A r \in Reqs : ~InFlight(r)

\* The slot a new request takes: the lowest one not in flight.
FreeSlot(r) == ~InFlight(r) /\ \A p \in Reqs : p < r => InFlight(p)

\* The driver faults an operation can meet: none with the cookie store.
Faults == IF storeKind = "cookie" THEN {FALSE} ELSE BOOLEAN

MaxAgeArgs == {3600}

Init ==
  /\ rev \in Revisions
  /\ storeKind \in StoreKinds
  /\ nameValid \in BOOLEAN
  /\ \E maxAge \in MaxAgeArgs : storeOpts = ConstructStore(storeKind, maxAge)
  /\ docs = [i \in 1..MaxIds |-> NoDoc]
  /\ nextId = 1
  /\ jar = NoCookie
  /\ req = [r \in Reqs |-> IdleReq]
  /\ last = NoOp

\* Store.Options, called by set-up code before the first request is served.
StoreOptions(o) ==
  /\ \A r \in Reqs : req[r].phase = "idle"
  /\ storeOpts' = StoreOptionsOf(storeKind, o)
  /\ UNCHANGED <<rev, storeKind, nameValid, docs, nextId, jar, req, last>>

\* Sessions: a request arrives carrying cookie c; the wrapper is built with a
\* nil session and written false, the hook is registered, next is called.
Answered(p, c) ==
  /\ req[p].phase = "done" /\ req[p].resp.set /\ req[p].saveErr = NoError
  /\ req[p].resp.value = c /\ jar = c

PriorOf(c) ==
  IF \E p \in Reqs : Answered(p, c)
    THEN LET p == CHOOSE p \in Reqs : Answered(p, c)
         IN [known |-> TRUE, atWrite |-> req[p].atWrite.mut,
             saved |-> req[p].saveArg, id |-> req[p].sess.ID]
  ELSE NoPrior

Arrive(r, c) ==
  /\ FreeSlot(r)
  /\ req' = [req EXCEPT ![r] = [IdleReq EXCEPT !.phase = "handler", !.cookie = c,
                                              !.via = TRUE, !.ctx = r,
                                              !.prior = PriorOf(c)]]
  /\ UNCHANGED <<rev, storeKind, nameValid, storeOpts, docs, nextId, jar, last>>

Frame == UNCHANGED <<rev, storeKind, nameValid, storeOpts, docs, nextId, jar, last>>

\* A request reaches a handler that no Sessions middleware precedes: its
\* context holds no wrapper.
Direct(r) ==
  /\ FreeSlot(r)
  /\ req' = [req EXCEPT ![r] = [IdleReq EXCEPT !.phase = "handler"]]
  /\ Frame

\* GetSession that finds no wrapper in any context
GetSession_Never(q) == NoRef

\* GetSession: the wrapper the request's context holds under sessionKey
GetSession(q) == IF q.ctx \in Reqs THEN q.ctx ELSE NoRef

\* The handle the handler of request r works with
Handle(r) == GetSession(req[r])

CanCall(r) ==
  /\ req[r].phase = "handler" /\ req[r].nops < MaxOps
  /\ Handle(r) # NoRef

\* The handler calls a method on the nil GetSession returned: a nil
\* dereference.
HNilCall(r) ==
  /\ req[r].phase = "handler"
  /\ Handle(r) = NoRef
  /\ req' = [req EXCEPT ![r].phase = "panic"]
  /\ Frame

Loaded(r, fault) == sessionSession(req[r], storeKind, storeOpts, nameValid, docs, fault)

\* The driver faults a method call on the wrapper of r can meet: the driver
\* is reached only by the lazy load, which a loaded session skips.
LoadFaults(r) == IF req[r].hasSess THEN {FALSE} ELSE Faults

\* The driver faults a first write can meet: the hook reaches the driver only
\* for a written session.
SaveFaults(q) == IF Written(q) THEN Faults ELSE {FALSE}

HGet(r, k) ==
  /\ CanCall(r)
  /\ \E f \in LoadFaults(Handle(r)) :
       req' = [req EXCEPT ![Handle(r)] = sessionGet(rev, Loaded(Handle(r), f), k)]
  /\ Frame

HSet(r, k, v) ==
  /\ CanCall(r)
  /\ \E f \in LoadFaults(Handle(r)) :
       req' = [req EXCEPT ![Handle(r)] = sessionSet(rev, Loaded(Handle(r), f), k, v)]
  /\ Frame

HDelete(r, k) ==
  /\ CanCall(r)
  /\ \E f \in LoadFaults(Handle(r)) :
       req' = [req EXCEPT ![Handle(r)] = sessionDelete(rev, Loaded(Handle(r), f), k)]
  /\ Frame

HClear(r) ==
  /\ CanCall(r)
  /\ \E f \in LoadFaults(Handle(r)) :
       req' = [req EXCEPT ![Handle(r)] = sessionClear(rev, Loaded(Handle(r), f))]
  /\ Frame

FlashLen(q) ==
  IF q.hasSess /\ FlashKey \in DOMAIN q.sess.Values THEN Len(q.sess.Values[FlashKey]) ELSE 0

HAddFlash(r, m) ==
  /\ CanCall(r)
  /\ \E f \in LoadFaults(Handle(r)) :
       /\ FlashLen(Loaded(Handle(r), f)) < MaxFlash
       /\ req' = [req EXCEPT ![Handle(r)] = sessionAddFlash(rev, Loaded(Handle(r), f), m)]
  /\ Frame

HFlashes(r) ==
  /\ CanCall(r)
  /\ \E f \in LoadFaults(Handle(r)) :
       req' = [req EXCEPT ![Handle(r)] = sessionFlashes(rev, Loaded(Handle(r), f))]
  /\ Frame

HOptions(r, o) ==
  /\ CanCall(r)
  /\ \E f \in LoadFaults(Handle(r)) :
       req' = [req EXCEPT ![Handle(r)] = sessionOptions(rev, Loaded(Handle(r), f), o)]
  /\ Frame

\* What the first write of the response does: negroni's ResponseWriter runs
\* the before hooks, then the header goes out.  A hook that panics leaves the
\* header unsent.
FirstWrite(q, f) ==
  LET b == BeforeHook(q, storeKind, storeOpts, nameValid, docs, nextId, f)
  IN IF b.q.phase = "panic" THEN b
     ELSE [b EXCEPT !.q = [b.q EXCEPT !.headerSent = TRUE,
                                      !.atWrite = [taken |-> TRUE, written |-> q.written,
                                                   mut |-> q.mut, optsArg |-> q.optsArg]]]

IdsLeft(b) == b.nextId # nextId => nextId <= MaxIds

\* The handler writes to the response for the first time.
HWrite(r) ==
  /\ req[r].phase = "handler"
  /\ ~req[r].headerSent
  /\ \E f \in SaveFaults(req[r]) :
       LET b == FirstWrite(req[r], f)
       IN /\ IdsLeft(b)
          /\ req' = [req EXCEPT ![r] = b.q]
          /\ docs' = b.docs
          /\ nextId' = b.nextId
  /\ UNCHANGED <<rev, storeKind, nameValid, storeOpts, jar, last>>

\* The client keeps the cookie of the last Set-Cookie header it was sent.
Received(q) == IF q.resp.set THEN q.resp.value ELSE jar

\* The handler returns.  A response never written to goes out without the
\* hook having run.
HReturn(r) ==
  /\ req[r].phase = "handler"
  /\ req' = [req EXCEPT ![r].phase = "done", ![r].prior = NoPrior]
  /\ jar' = Received(req[r])
  /\ UNCHANGED <<rev, storeKind, nameValid, storeOpts, docs, nextId, last>>

\* A panic of the handler reaches negroni's Recovery, which writes the 500
\* status: for an unwritten response that is its first write.
Recovery(r) ==
  /\ req[r].phase = "panic"
  /\ \E f \in (IF req[r].headerSent THEN {FALSE} ELSE SaveFaults(req[r])) :
       LET b == IF req[r].headerSent
                  THEN [q |-> req[r], docs |-> docs, nextId |-> nextId]
                  ELSE FirstWrite([req[r] EXCEPT !.phase = "handler"], f)
       IN /\ IdsLeft(b)
          /\ req' = [req EXCEPT ![r] = [b.q EXCEPT !.phase = "done", !.prior = NoPrior]]
          /\ jar' = Received(b.q)
          /\ docs' = b.docs
          /\ nextId' = b.nextId
  /\ UNCHANGED <<rev, storeKind, nameValid, storeOpts, last>>

\* The cookies a request can carry: none, the client's, or one not signed
\* with the store's key.
Carried == {NoCookie, jar, ForgedCookie}

Next ==
  \/ \E o \in OptionInputs : StoreOptions(o)
  \/ \E r \in Reqs, c \in Carried : Serial /\ Arrive(r, c)
  \/ \E r \in Reqs : Serial /\ Direct(r)
  \/ \E r \in Reqs : HNilCall(r)
  \/ \E r \in Reqs, k \in Keys : HGet(r, k)
  \/ \E r \in Reqs, k \in Keys, v \in Vals : HSet(r, k, v)
  \/ \E r \in Reqs, k \in Keys : HDelete(r, k)
  \/ \E r \in Reqs : HClear(r)
  \/ \E r \in Reqs, m \in Msgs : HAddFlash(r, m)
  \/ \E r \in Reqs : HFlashes(r)
  \/ \E r \in Reqs, o \in OptionInputs : HOptions(r, o)
  \/ \E r \in Reqs : HWrite(r)
  \/ \E r \in Reqs : HReturn(r)
  \/ \E r \in Reqs : Recovery(r)

Spec == Init /\ [][Next]_vars

\* ------------------------------------------------- the store called directly
\* An ID string that is not the hex of an object id
BadId == -1

\* A document whose Data this store's codecs do not decode
UndecodableDoc == [present |-> TRUE, Data |-> ForgedCookie, Modified |-> Now]

\* The constructors: with ensureTTL they clone the connection for EnsureIndex
\* and close the clone on return.
constructorEvents(ensureTTL) ==
  IF ensureTTL THEN <<"Clone", "EnsureIndex", "Close">> ELSE NoEvents

\* The values a caller puts in a session
StoreKeys == Keys \cup {ModifiedKey}
StoreVals == {"world"} \cup Times

\* The cookies a request can present to the store: none, one not signed with
\* the store's key, a signed one whose ID is no object id, the client's, and
\* the cookie of any ID handed out so far.
Presented ==
  {NoCookie, ForgedCookie, EncodeID(SessName, BadId), jar}
    \cup {EncodeID(SessName, i) : i \in 1..(nextId - 1)}

InitStore ==
  /\ rev = 2
  /\ storeKind \in StoreKinds \ {"cookie"}
  /\ nameValid = TRUE
  /\ \E maxAge \in MaxAgeArgs : storeOpts = ConstructStore(storeKind, maxAge)
  /\ \E legacy \in BOOLEAN :
       /\ docs = [i \in 1..MaxIds |-> IF legacy /\ i = 1 THEN UndecodableDoc ELSE NoDoc]
       /\ nextId = IF legacy THEN 2 ELSE 1
  /\ jar = NoCookie
  /\ req = [r \in Reqs |-> IdleReq]
  /\ \E ensureTTL \in BOOLEAN :
       last = [NoOp EXCEPT !.name = "construct", !.events = constructorEvents(ensureTTL),
                           !.before = docs,
                           !.open = Opened(constructorEvents(ensureTTL))]

\* The driver events of a New: those of the load it calls when the cookie
\* decodes to an ID.
NewEvents(c, dcs, fault) ==
  IF HasToken(c) /\ DecodeOK(SessName, c, "id")
    THEN load([NewSession EXCEPT !.ID = c.id], dcs, fault).events
  ELSE NoEvents

\* The driver events of a Save of session that left it as saved: those of
\* the delete or of the save it calls.
SaveEvents(kind, session, saved, dcs, fault) ==
  IF session.Options.MaxAge < 0 THEN delete(session, dcs, fault).events
  ELSE save(kind, saved, dcs, fault).events

StoreFrame == UNCHANGED <<rev, storeKind, nameValid, storeOpts, req>>

\* store.New for a request presenting cookie c
SNew(c, f) ==
  /\ LET n == backendStoreNew(storeKind, storeOpts, c, docs, f)
     IN last' = [NoOp EXCEPT !.name = "New", !.has = TRUE, !.session = n.session,
                           !.cookie = c, !.fault = f, !.err = n.err,
                           !.loadErr = n.loadErr, !.events = NewEvents(c, docs, f),
                           !.before = docs, !.removed = last.removed,
                           !.deleted = last.deleted,
                           !.open = last.open + Opened(NewEvents(c, docs, f))]
  /\ UNCHANGED <<docs, nextId, jar>>
  /\ StoreFrame

\* The caller sets a value of the session in hand.
SSetValue(k, v) ==
  /\ last.has
  /\ last' = [NoOp EXCEPT !.name = "Set", !.has = TRUE,
                         !.session = [last.session EXCEPT !.Values = MapPut(@, k, v)],
                         !.saved = last.saved, !.savedValues = last.savedValues,
                         !.removed = last.removed, !.deleted = last.deleted,
                         !.open = last.open]
  /\ UNCHANGED <<docs, nextId, jar>>
  /\ StoreFrame

\* The caller sets the options of the session in hand.
SSetOptions(o) ==
  /\ last.has
  /\ last' = [NoOp EXCEPT !.name = "Options", !.has = TRUE,
                         !.session = [last.session EXCEPT !.Options =
                            [Path |-> o.Path, Domain |-> o.Domain, MaxAge |-> o.MaxAge,
                             Secure |-> o.Secure, HttpOnly |-> o.HTTPOnly]],
                         !.saved = last.saved, !.savedValues = last.savedValues,
                         !.removed = last.removed, !.deleted = last.deleted,
                         !.open = last.open]
  /\ UNCHANGED <<docs, nextId, jar>>
  /\ StoreFrame

\* The IDs whose document a Save has removed and no Save has stored since,
\* after a Save of session that returned sv.
Removed(removed, session, sv) ==
  IF sv.err # NoError THEN removed
  ELSE IF session.Options.MaxAge < 0 THEN removed \cup {sv.session.ID}
  ELSE removed \ {sv.session.ID}

\* store.Save of the session in hand
SSave(f) ==
  /\ last.has
  /\ LET sv == backendStoreSave(storeKind, last.session, docs, nextId, f)
         ev == SaveEvents(storeKind, last.session, sv.session, docs, f)
     IN /\ sv.nextId # nextId => nextId <= MaxIds
        /\ last' = [NoOp EXCEPT !.name = "Save", !.has = TRUE, !.session = sv.session, !.fault = f,
                            !.err = sv.err, !.resp = sv.resp, !.events = ev,
                            !.before = docs, !.given = last.session,
                            !.saved = IF sv.err = NoError
                                        THEN last.session.Options.MaxAge >= 0
                                      ELSE last.saved,
                            !.savedValues = IF sv.err = NoError THEN last.session.Values
                                            ELSE last.savedValues,
                            !.removed = Removed(last.removed, last.session, sv),
                            !.deleted = last.deleted \cup Removed({}, last.session, sv),
                            !.open = last.open + Opened(ev)]
        /\ docs' = sv.docs
        /\ nextId' = sv.nextId
        /\ jar' = IF sv.resp.set THEN sv.resp.value ELSE jar
  /\ StoreFrame

NextStore ==
  \/ \E c \in Presented, f \in BOOLEAN : SNew(c, f)
  \/ \E k \in StoreKeys, v \in StoreVals : (v \in Times => k = ModifiedKey) /\ SSetValue(k, v)
  \/ \E o \in OptionInputs : SSetOptions(o)
  \/ \E f \in BOOLEAN : SSave(f)

SpecStore == InitStore /\ [][NextStore]_vars

\* -------------------------------------------------- overlapping requests
\* The document of a session saved with no values
EmptyDoc == [present |-> TRUE, Data |-> EncodeValues(SessName, EmptyMap, FALSE), Modified |-> Now]

\* A backend store that holds the session of the client's cookie.
InitOverlap ==
  /\ rev = 2
  /\ storeKind \in StoreKinds \ {"cookie"}
  /\ nameValid = TRUE
  /\ \E maxAge \in MaxAgeArgs : storeOpts = ConstructStore(storeKind, maxAge)
  /\ docs = [i \in 1..MaxIds |-> IF i = 1 THEN EmptyDoc ELSE NoDoc]
  /\ nextId = 2
  /\ jar = EncodeID(SessName, 1)
  /\ req = [r \in Reqs |-> IdleReq]
  /\ last = NoOp

\* A request with the client's cookie arrives, in a goroutine of its own,
\* while the requests before it are still being served.
Overlap(r) ==
  /\ req[r].phase = "idle"
  /\ Arrive(r, jar)

NextOverlap ==
  \/ \E r \in Reqs : Overlap(r)
  \/ \E r \in Reqs, k \in Keys : HGet(r, k)
  \/ \E r \in Reqs, k \in Keys, v \in Vals : HSet(r, k, v)
  \/ \E r \in Reqs, k \in Keys : HDelete(r, k)
  \/ \E r \in Reqs, m \in Msgs : HAddFlash(r, m)
  \/ \E r \in Reqs : HWrite(r)
  \/ \E r \in Reqs : HReturn(r)

SpecOverlap == InitOverlap /\ [][NextOverlap]_vars

\* =====================================================================
\* Properties
\* =====================================================================

\* The values the store holds under cookie c: the cookie's own payload with
\* the cookie store, the document of the cookie's ID with a backend store.
StoredValues(c) ==
  IF storeKind = "cookie"
    THEN IF DecodeOK(SessName, c, "map") THEN c.vals ELSE EmptyMap
  ELSE IF DecodeOK(SessName, c, "id") /\ IsObjectIdHex(c.id) /\ docs[c.id].present
    THEN docs[c.id].Data.vals
  ELSE EmptyMap

\* values is as the latest call on k in log leaves it.
ReflectsKey(values, log, k) ==
  CASE log[k].op = "Set" -> MapGet(values, k) = log[k].val
    [] log[k].op = "AddFlash" ->
         /\ k \in DOMAIN values
         /\ values[k] # <<>>
         /\ values[k][Len(values[k])] = log[k].val
    [] log[k].op \in {"Delete", "Clear", "Flashes"} -> k \notin DOMAIN values
    [] OTHER -> TRUE

\* The values handed to Save reflect the logged mutations.
Reflects(values, log) == \A k \in AllKeys : ReflectsKey(values, log, k)

Mutated(log) == \E k \in AllKeys : log[k].op \in {"Set", "Delete", "Clear", "AddFlash"}

\* The response of q set a session cookie that is not the empty one.
Answers(q) == q.resp.set /\ q.resp.value.kind # "empty"

\* When the latest call on k in log is op and the response of q set a session
\* cookie, the store holds under that cookie what the call left for k: this
\* is what a request carrying the cookie loads.
StoredAsLogged(q, log, k, op) ==
  (Answers(q) /\ log[k].op = op) => ReflectsKey(StoredValues(q.resp.value), log, k)

\* Request q carries the cookie a response set, the store loaded its session
\* from that cookie, and its latest session call is a Get(k) that no call of
\* its own on k came before.
ReadsBack(q, k) ==
  /\ q.prior.known /\ q.hasSess /\ ~q.sess.IsNew
  /\ q.lastCall.op = "Get" /\ q.lastCall.key = k /\ q.mut[k] = NoMut

\* Request q carries the cookie a response set and its latest session call
\* is a Get(k) that no call of its own on k came before.
GetsAfter(q, k) ==
  /\ q.prior.known
  /\ q.lastCall.op = "Get" /\ q.lastCall.key = k /\ q.mut[k] = NoMut

\* Request q carries the cookie a response set and its first session call is
\* Flashes().
ReadsFlashes(q) ==
  q.prior.known /\ q.nops = 1 /\ q.lastCall.op = "Flashes"

\* Flashes() returned a list that ends with message m.
EndsWith(flashes, m) == flashes # <<>> /\ flashes[Len(flashes)] = m

C2_FlushAtFirstWrite ==
  \A r \in Reqs :
    (req[r].atWrite.taken /\ Mutated(req[r].atWrite.mut))
      => /\ req[r].saveCalls = 1
         /\ Reflects(req[r].saveArg, req[r].atWrite.mut)

\* C2 witness: a handler mutated the session, then wrote, and Save ran.
C2_Witness ==
  \E r \in Reqs :
    /\ req[r].atWrite.taken /\ Mutated(req[r].atWrite.mut)
    /\ req[r].saveCalls = 1 /\ req[r].resp.set

\* C2 as stated: every request whose handler mutated the session has had Save
\* invoked on a session reflecting every mutation of the handler.
C2_FlushAfterHandler ==
  \A r \in Reqs :
    (req[r].phase = "done" /\ Mutated(req[r].mut))
      => /\ req[r].saveCalls = 1
         /\ Reflects(req[r].saveArg, req[r].mut)

\* C3: a handler that calls no session method other than Get leaves the
\* written flag false, and with the flag false Save is never invoked and the
\* response sets no session cookie.
C3_NoSaveUnlessWritten ==
  \A r \in Reqs :
    /\ ~req[r].others => ~req[r].written
    /\ ~req[r].written => (req[r].saveCalls = 0 /\ ~req[r].resp.set)

\* C3 witness: a request that only called Get on its session has been
\* answered, with no Save and no cookie.
C3_Witness ==
  \E r \in Reqs :
    /\ req[r].phase = "done" /\ req[r].headerSent /\ req[r].hasSess
    /\ req[r].nops > 0 /\ ~req[r].others
    /\ req[r].saveCalls = 0 /\ ~req[r].resp.set

\* C4 (as amended): if the last call on k that the handler of one request
\* made before the first write of its response is Delete(k) (after a
\* Set(k, v) or not), the store holds no value for k under the cookie that
\* response set, and a following request carrying that cookie gets nil from
\* Get(k): the key is absent.
C4_DeleteBeforeFirstWriteRemoves ==
  \A r \in Reqs, k \in Keys :
    /\ StoredAsLogged(req[r], req[r].atWrite.mut, k, "Delete")
    /\ (GetsAfter(req[r], k) /\ req[r].prior.atWrite[k].op = "Delete")
         => req[r].lastCall.ret = Nil

\* C4 witness: a request whose session the store loaded from the cookie gets
\* nil for a key whose value the request before deleted.
C4_Witness ==
  \E r \in Reqs, k \in Keys :
    /\ ReadsBack(req[r], k) /\ req[r].prior.atWrite[k].op = "Delete"
    /\ req[r].prior.atWrite[k].val \in Vals /\ req[r].lastCall.ret = Nil

\* C4 as stated: if the handler's last call on k, at any time, is Delete(k),
\* the store holds no value for k under the cookie the response set, so that
\* a following request carrying that cookie finds the key absent.
C4_AnyDeleteRemoves ==
  \A r \in Reqs, k \in Keys :
    req[r].phase = "done" => StoredAsLogged(req[r], req[r].mut, k, "Delete")

\* C5 (as amended): if the handler of one request calls Clear before the
\* first write of its response and sets nothing after it before that write,
\* the store holds no value under the cookie that response set, and a
\* following request carrying that cookie finds none: Get(k) returns nil for
\* every key and Flashes() returns no message.
C5_ClearBeforeFirstWriteEmpties ==
  \A r \in Reqs :
    /\ \A k \in AllKeys : StoredAsLogged(req[r], req[r].atWrite.mut, k, "Clear")
    /\ \A k \in Keys :
         (GetsAfter(req[r], k) /\ req[r].prior.atWrite[k].op = "Clear")
           => req[r].lastCall.ret = Nil
    /\ (ReadsFlashes(req[r]) /\ req[r].prior.atWrite[FlashKey].op = "Clear")
         => req[r].lastCall.flashes = <<>>

\* C5 witness: a request whose session the store loaded from the cookie gets
\* nil for a key whose value the request before cleared.
C5_Witness ==
  \E r \in Reqs, k \in Keys :
    /\ ReadsBack(req[r], k) /\ req[r].prior.atWrite[k].op = "Clear"
    /\ req[r].prior.atWrite[k].val \in Vals /\ req[r].lastCall.ret = Nil

\* C5 as stated: if the handler's last call touching k, at any time, is
\* Clear, the store holds no value for k under the cookie the response set,
\* so that a following request carrying that cookie finds no value.
C5_AnyClearEmpties ==
  \A r \in Reqs, k \in AllKeys :
    req[r].phase = "done" => StoredAsLogged(req[r], req[r].mut, k, "Clear")

CookieAttrs(o) ==
  [Path |-> o.Path, Domain |-> o.Domain, MaxAge |-> o.MaxAge,
   Secure |-> o.Secure, HttpOnly |-> o.HTTPOnly]

\* C7 (as amended): the options last set on a session before the first write
\* of the response are the attributes of the cookie written for that request;
\* the cookie written for a request that set no options before its first
\* write has the attributes the store gives a new session, whatever options
\* earlier requests set on their sessions; and a call of Options changes
\* neither the store's options nor any other request.
C7_OptionsBeforeFirstWriteSetAttrs ==
  /\ [](\A r \in Reqs :
          /\ (req[r].resp.set /\ req[r].atWrite.optsArg # NoOptionsArg)
               => req[r].resp.attrs = CookieAttrs(req[r].atWrite.optsArg)
          /\ (InFlight(r) /\ req[r].resp.set /\ req[r].atWrite.optsArg = NoOptionsArg)
               => req[r].resp.attrs = NewOptions(storeKind, storeOpts))
  /\ [][\A r \in Reqs :
          (req'[r].nops = req[r].nops + 1 /\ req'[r].lastCall.op = "Options")
            => /\ storeOpts' = storeOpts
               /\ \A p \in Reqs \ {r} : req'[p] = req[p]]_vars

\* C7 witness: a response carries a cookie with the Path the handler set on
\* the session, which is not the store's.
C7_Witness ==
  \E r \in Reqs :
    /\ req[r].resp.set /\ req[r].atWrite.optsArg # NoOptionsArg
    /\ req[r].resp.attrs.Path = req[r].atWrite.optsArg.Path
    /\ req[r].resp.attrs.Path # storeOpts.Path

\* C7 as stated: the options set on a session during a request, at any time,
\* are the attributes of the cookie written for that request.
C7_AnyOptionsSetAttrs ==
  \A r \in Reqs :
    (req[r].phase = "done" /\ req[r].resp.set /\ req[r].optsArg # NoOptionsArg)
      => req[r].resp.attrs = CookieAttrs(req[r].optsArg)

\* C8: the cookie written for a session that sets no options of its own
\* carries the Path, Domain, MaxAge, Secure and HttpOnly of the store's
\* options, with every store adapter.
C8_StoreOptionsOnEveryCookie ==
  \A r \in Reqs :
    (InFlight(r) /\ req[r].resp.set /\ req[r].atWrite.optsArg = NoOptionsArg)
      => req[r].resp.attrs = storeOpts

\* C9: no store.Get before the first session method call of a request; the
\* first call makes one; and once it has returned a session there is no
\* other in that request.
C9_LazyLoadOnce ==
  \A r \in Reqs :
    /\ req[r].nops = 0 => req[r].getCalls = 0
    /\ req[r].nops >= 1 => req[r].getCalls >= 1
    /\ req[r].hasSess => req[r].getCalls = 1

\* C9 witness: a request has made two session calls and written its response
\* through the hook, on one store.Get.
C9_Witness ==
  \E r \in Reqs :
    /\ req[r].hasSess /\ req[r].nops = 2 /\ req[r].saveCalls = 1
    /\ req[r].getCalls = 1

\* With a backend store, request q carries the cookie written by a Save that
\* succeeded with MaxAge >= 0, and New has returned its session, which no
\* call of the handler has changed yet.
NewAfterSave(q) ==
  /\ storeKind \in {"mongo", "dal"}
  /\ q.prior.known /\ q.cookie.kind = "id"
  /\ q.hasSess /\ q.mut = NoLog /\ q.saveCalls = 0

\* New on q returned the session as the Save before left it.
SameSession(q) ==
  /\ q.sess.ID = q.prior.id
  /\ Serialize(q.sess.Values, q.sess.ValuesNil) = q.prior.saved
  /\ ~q.sess.IsNew

Issued(events, e) == \E i \in 1..Len(events) : events[i] = e

\* The last call was a Save of a session whose MaxAge is negative.
SavedNegative == last.name = "Save" /\ last.given.Options.MaxAge < 0

\* What a Save that deletes leaves: no document under the session's ID, no
\* upsert issued, the cookie rewritten with the empty value.
DeletedByLast ==
  /\ IsObjectIdHex(last.given.ID) /\ ~docs[last.given.ID].present
  /\ ~Issued(last.events, "UpsertId")
  /\ last.resp.set /\ last.resp.value = EmptyCookie

\* The last call was a New presenting the cookie of an ID in ids.
NewPresenting(ids) ==
  last.name = "New" /\ DecodeOK(SessName, last.cookie, "id") /\ last.cookie.id \in ids

NewAndEmpty == last.session.IsNew /\ last.session.Values = EmptyMap

BackendErr ==
  IF last.given.Options.MaxAge < 0
    THEN delete(last.given, last.before, last.fault).err
  ELSE save(storeKind, last.session, last.before, last.fault).err

\* The last Save wrote a cookie that carries a session ID.
WroteIdCookie == last.resp.set /\ last.resp.value.kind = "id"

\* C12: Save returns the error of its upsert or removal, and when there is
\* one it writes no cookie and leaves the backend as it was; a cookie that
\* carries an ID is written only by a Save that issued the upsert, met no
\* error, and left under that ID the document encoding the session's values.
C12_PersistThenCookie ==
  last.name = "Save" =>
    /\ last.err = BackendErr
    /\ last.err # NoError => (~last.resp.set /\ docs = last.before)
    /\ WroteIdCookie =>
         /\ last.err = NoError /\ Issued(last.events, "UpsertId")
         /\ last.resp.value = EncodeID(SessName, last.session.ID)
         /\ docs[last.session.ID].present
         /\ docs[last.session.ID].Data =
              EncodeValues(SessName, last.given.Values, last.given.ValuesNil)

\* A Save whose upsert or removal met a driver error, for a session that had
\* a document.
C12_Witness ==
  /\ last.name = "Save" /\ last.fault /\ last.err = "driver"
  /\ IsObjectIdHex(last.given.ID) /\ last.before[last.given.ID].present

\* ------------------------------------------------------------------ C13
\* The last call was a New whose cookie decoded to an ID and whose load of
\* that ID's document failed: the find met a driver error, found no
\* document, or found one whose Data does not decode.
NewLoadFailed ==
  /\ last.name = "New" /\ DecodeOK(SessName, last.cookie, "id")
  /\ last.loadErr \in {"driver", "ErrNotFound", "decode"}

\* C13 (as amended): the error New returns is the cookie decoding's alone;
\* when the cookie decodes to an ID and the load of that ID's document fails,
\* New returns no error and a session with IsNew = true that holds the
\* cookie's ID and no values.
C13_NewReturnsCookieErrorOnly ==
  last.name = "New" =>
    /\ last.err = IF HasToken(last.cookie) /\ ~DecodeOK(SessName, last.cookie, "id")
                    THEN "decode" ELSE NoError
    /\ NewLoadFailed =>
         /\ last.err = NoError
         /\ NewAndEmpty /\ last.session.ID = last.cookie.id

\* A New whose find met a driver error although the document is there.
C13_Witness ==
  /\ NewLoadFailed /\ last.loadErr = "driver"
  /\ last.before[last.cookie.id].present

\* C13 as stated: when the load fails, New returns the load's error.
C13_NewReturnsLoadError == NewLoadFailed => last.err = last.loadErr

\* ------------------------------------------------------------------ C15
\* The request of the last New carried a cookie of the session name that
\* decodes to an ID, the find met the document of that ID, and the
\* document's Data decodes.
FoundAndDecoded ==
  /\ HasToken(last.cookie) /\ DecodeOK(SessName, last.cookie, "id")
  /\ IsObjectIdHex(last.cookie.id)
  /\ ~last.fault
  /\ last.before[last.cookie.id].present
  /\ DecodeOK(SessName, last.before[last.cookie.id].Data, "map")

\* C15: the session New returns has IsNew = false exactly when the cookie
\* decodes to an ID whose document is found and decodes, and it then holds
\* the document's values; in every other case IsNew = true.
C15_IsNewExactlyWhenNotLoaded ==
  last.name = "New" =>
    /\ ~last.session.IsNew <=> FoundAndDecoded
    /\ FoundAndDecoded => last.session.Values = last.before[last.cookie.id].Data.vals

\* A New that loaded a document holding values.
C15_Witness ==
  last.name = "New" /\ ~last.session.IsNew /\ last.session.Values # EmptyMap

\* ------------------------------------------------------------------ C16
\* The document save writes for a session
DocOf(session) ==
  [present |-> TRUE,
   Data |-> EncodeValues(SessName, session.Values, session.ValuesNil),
   Modified |-> ModifiedOf(session)]

IdSaved == IF last.given.Options.MaxAge < 0 THEN last.given.ID ELSE last.session.ID

\* load, save and delete, given the session in hand as it is, refuse an ID
\* that is no object id before they touch the driver.
RefusesInvalidId(session) ==
  \A f \in BOOLEAN :
    /\ load(session, docs, f) =
         [ok |-> FALSE, err |-> "ErrInvalidId", session |-> session, events |-> NoEvents]
    /\ save(storeKind, session, docs, f) =
         [err |-> "ErrInvalidId", docs |-> docs, events |-> NoEvents]
    /\ delete(session, docs, f) =
         [err |-> "ErrInvalidId", docs |-> docs, events |-> NoEvents]

\* C17: when the session's ID is not the hex of an object id, load, save and
\* delete return ErrInvalidId, clone no connection and issue no call on the
\* collection: so for the load of a New whose cookie holds such an ID, and
\* for the save or delete of a Save of a session with such an ID.
C17_InvalidIdTouchesNothing ==
  /\ (last.has /\ ~IsObjectIdHex(last.session.ID)) => RefusesInvalidId(last.session)
  /\ (last.name = "New" /\ DecodeOK(SessName, last.cookie, "id")
        /\ ~IsObjectIdHex(last.cookie.id)) =>
       (last.loadErr = "ErrInvalidId" /\ last.events = NoEvents /\ last.session.IsNew)
  /\ (last.name = "Save" /\ ~IsObjectIdHex(IdSaved)) =>
       (last.err = "ErrInvalidId" /\ last.events = NoEvents /\ docs = last.before)

\* A Save, to store, of a session that holds values and whose ID came from a
\* cookie and is no object id.
C17_Witness ==
  /\ last.name = "Save" /\ last.given.ID = BadId /\ last.given.Options.MaxAge >= 0
  /\ last.given.Values # EmptyMap
  /\ last.err = "ErrInvalidId"

\* ------------------------------------------------------------------ C18
\* The last call was a Save that called save: one of a session with
\* MaxAge >= 0.
CalledSave == last.name = "Save" /\ last.given.Options.MaxAge >= 0

\* The session's values hold a "modified" entry that is not a time.
BadModified(session) == HasModified(session) /\ session.Values[ModifiedKey] \notin Times

RefusedModified ==
  last.err = "ErrInvalidModified" /\ docs = last.before /\ ~Issued(last.events, "UpsertId")

C19_CloneCloseBalance ==
  /\ Opened(last.events) = 0
  /\ Count(last.events, "Clone") <= 1
  /\ last.events # NoEvents =>
       (last.events[1] = "Clone" /\ last.events[Len(last.events)] = "Close")
  /\ last.open = 0

\* dalStore.save returns ErrInvalidModified after it has cloned the
\* connection.
C19_Witness ==
  /\ storeKind = "dal"
  /\ last.name = "Save" /\ last.err = "ErrInvalidModified"
  /\ last.events = <<"Clone", "Close">>

\* ------------------------------------------------------------------ C14
\* The handler's last call was Get(k), made after a call that changed k.
GetsAfterChange(q, k) ==
  q.lastCall.op = "Get" /\ q.lastCall.key = k /\ q.hasSess /\ q.mut[k] # NoMut

\* C14: for a request that passed through Sessions, GetSession returns, at
\* every call, the wrapper Sessions built for that request, so a Get made
\* through one handle returns what the latest Set, Delete or Clear made
\* through another left under the key; for a request that did not pass
\* through Sessions it returns nil, and no session call is ever made for it.
C14_GetSessionReturnsTheWrapper ==
  \A r \in Reqs :
    /\ (req[r].phase # "idle" /\ req[r].via) => GetSession(req[r]) = r
    /\ (req[r].phase # "idle" /\ ~req[r].via) =>
         (GetSession(req[r]) = NoRef /\ req[r].nops = 0 /\ req[r].getCalls = 0)
    /\ \A k \in Keys :
         GetsAfterChange(req[r], k) =>
           req[r].lastCall.ret =
             IF req[r].mut[k].op = "Set" THEN req[r].mut[k].val ELSE Nil

\* A handler has set a value through one handle and read it back through
\* another, in a request that brought no session.
C14_Witness ==
  \E r \in Reqs, k \in Keys :
    /\ req[r].via /\ req[r].cookie = NoCookie
    /\ GetsAfterChange(req[r], k) /\ req[r].mut[k].op = "Set"
    /\ req[r].lastCall.ret = req[r].mut[k].val /\ req[r].lastCall.ret \in Vals

\* ------------------------------------------------------------------ C20
\* C20 as stated: a request whose store.Get returned an error and no session
\* is not aborted by a panic, and a request whose Save returned an error in
\* the hook has its response written all the same.
C20_StoreErrorNeverAborts ==
  \A r \in Reqs :
    /\ (req[r].getErr # NoError /\ ~req[r].hasSess) => req[r].phase # "panic"
    /\ req[r].saveErr # NoError => req[r].headerSent

\* ------------------------------------------------------------------ C21
\* The step is a call of method op on the wrapper of r that returned.
Returned(r, op) ==
  /\ req[r].phase = "handler" /\ req'[r].phase = "handler"
  /\ req'[r].nops = req[r].nops + 1
  /\ req'[r].lastCall.op = op

\* The step is the arrival of a request in slot r.
Arrives(r) == req[r].phase # "handler" /\ req'[r].phase = "handler"

\* The methods that mark the session written
Marking == {"Set", "Delete", "AddFlash", "Flashes"}

\* C21 (as amended): the written flag is false when the middleware creates
\* the wrapper; a Set, Delete, AddFlash or Flashes that returns, on a wrapper
\* whose store.Get yielded a session, leaves it true (Flashes also when it
\* returns no flash); Get leaves it as it was; and nothing resets it while
\* the request is served.
C21_WrittenFlag ==
  [][\A r \in Reqs :
       /\ Arrives(r) => ~req'[r].written
       /\ \A op \in Marking :
            (Returned(r, op) /\ req'[r].hasSess) => req'[r].written
       /\ Returned(r, "Get") => req'[r].written = req[r].written
       /\ (InFlight(r) /\ req[r].written) => req'[r].written]_vars

\* Flashes has returned no flash, on a session nothing else had marked, and
\* the session is written.
C21_Witness ==
  \E r \in Reqs :
    /\ req[r].phase = "handler" /\ req[r].hasSess /\ req[r].nops = 1
    /\ req[r].lastCall.op = "Flashes" /\ req[r].lastCall.flashes = <<>>
    /\ req[r].written

\* C21 as stated: every Set, Delete, AddFlash and Flashes leaves the written
\* flag true.
C21_EveryMutationMarks ==
  [][\A r \in Reqs : \A op \in Marking : Returned(r, op) => req'[r].written]_vars

\* ------------------------------------------------------------------ C22
\* C22: Options leaves the written flag as it was, and a request whose
\* session is not written makes no Save, gets no cookie in its response and
\* leaves the backend's documents as they were.
C22_OptionsIsNoWrite ==
  /\ [](\A r \in Reqs :
          (req[r].phase # "idle" /\ ~req[r].written)
            => (req[r].saveCalls = 0 /\ ~req[r].resp.set))
  /\ [][\A r \in Reqs :
          /\ Returned(r, "Options") => req'[r].written = req[r].written
          /\ (InFlight(r) /\ ~req'[r].written) => docs' = docs]_vars

\* A request that carried the cookie of a stored session has been answered
\* after its handler called Options with a negative MaxAge and nothing else:
\* no Save, no cookie, and the document is still there.
C22_Witness ==
  \E r \in Reqs :
    /\ req[r].phase = "done" /\ req[r].headerSent
    /\ req[r].cookie.kind = "id" /\ req[r].hasSess /\ ~req[r].sess.IsNew
    /\ req[r].nops = 1 /\ req[r].lastCall.op = "Options"
    /\ req[r].sess.Options.MaxAge < 0
    /\ req[r].saveCalls = 0 /\ ~req[r].resp.set
    /\ docs[req[r].sess.ID].present

\* ------------------------------------------------------------------ C23
\* C23: a request has at most one Save; the Save is made in the step that
\* sends the headers, on the values the session holds at that moment; and
\* once the headers are out no Save is made.
C23_SaveOnceAtFirstWrite ==
  /\ [](\A r \in Reqs : req[r].saveCalls <= 1)
  /\ [][\A r \in Reqs :
          /\ (InFlight(r) /\ req'[r].saveCalls # req[r].saveCalls)
               => /\ ~req[r].headerSent /\ req'[r].headerSent
                  /\ req[r].hasSess
                  /\ req'[r].saveArg = Serialize(req[r].sess.Values, req[r].sess.ValuesNil)
          /\ (InFlight(r) /\ req[r].headerSent)
               => (req'[r].saveCalls = req[r].saveCalls /\ docs' = docs)]_vars

\* A request has been answered whose handler changed the session again
\* after the first write: its one Save was handed the values of that moment,
\* not those the session holds at the end.
C23_Witness ==
  \E r \in Reqs :
    /\ req[r].phase = "done" /\ req[r].saveCalls = 1 /\ req[r].nops = 2
    /\ req[r].mut # req[r].atWrite.mut
    /\ req[r].saveArg # Serialize(req[r].sess.Values, req[r].sess.ValuesNil)

\* ------------------------------------------------------------------ C24
\* The handler of q has called Clear on a session the store yielded.
Cleared(q) ==
  q.hasSess /\ (q.sess.ValuesNil \/ \E k \in AllKeys : q.mut[k].op = "Clear")

\* The keys the handler of q set, by Set or AddFlash, and did not remove
\* again before the first write.
KeysSetAtWrite(q) == {k \in AllKeys : q.atWrite.mut[k].op \in {"Set", "AddFlash"}}

\* C24 as stated: after Clear no session call of the request panics, a Get
\* that follows a Set returns the value set, and the one Save of a request
\* that called Clear before its first write is handed exactly the keys set
\* after the Clear.
C24_UsableAfterClear ==
  \A r \in Reqs :
    /\ Cleared(req[r]) => req[r].phase # "panic"
    /\ \A k \in Keys :
         (Cleared(req[r]) /\ GetsAfterChange(req[r], k) /\ req[r].mut[k].op = "Set")
           => req[r].lastCall.ret = req[r].mut[k].val
    /\ (req[r].saveCalls = 1 /\ \E k \in AllKeys : req[r].atWrite.mut[k].op = "Clear")
         => DOMAIN req[r].saveArg = KeysSetAtWrite(req[r])

\* ------------------------------------------------------------------ C25
\* The store's Get was called for q and yielded no session.
NoSessionYielded(q) == q.getCalls > 0 /\ ~q.hasSess

\* C25 as stated: when store.Get yields no session, no session call panics,
\* Get returns nil and Flashes no flash, no call has an effect or marks the
\* session written, and no Save is made for the request.
C25_NilSessionIsNoOp ==
  \A r \in Reqs :
    NoSessionYielded(req[r])
      => /\ req[r].phase # "panic"
         /\ req[r].lastCall.ret = Nil /\ req[r].lastCall.flashes = <<>>
         /\ req[r].mut = NoLog /\ req[r].optsArg = NoOptionsArg
         /\ ~req[r].written
         /\ req[r].saveCalls = 0 /\ ~req[r].resp.set

\* ------------------------------------------------------------------ C26
\* The step is the first write of request r, whose Save succeeded.
Upserts(r) ==
  req'[r].saveCalls = req[r].saveCalls + 1 /\ req'[r].saveErr = NoError

\* Both requests have been answered after a Save that succeeded.
BothSaved ==
  \A r \in Reqs : req[r].phase = "done" /\ req[r].saveCalls = 1 /\ req[r].saveErr = NoError

\* C26: two requests with the same session cookie, served at the same time
\* with a backend store.  Each works on the copy it loaded: a first Get
\* returns what the document held when it was made, and a step of one
\* request leaves the other's wrapper alone.  Every Save that succeeds
\* replaces the document's values with the values of its own session,
\* keeping nothing of what the document held; no other step changes a
\* document.  So after both Saves the document holds the values of one of
\* the two requests, the one that saved last; and the cookie's ID is the
\* only one with a document.
C26_LastUpsertWins ==
  /\ [](/\ {i \in 1..MaxIds : docs[i].present} = {jar.id}
        /\ nextId = jar.id + 1
        /\ \A r \in Reqs : req[r].hasSess => req[r].sess.ID = jar.id
        /\ BothSaved => \E r \in Reqs : docs[jar.id].Data.vals = req[r].saveArg)
  /\ [][\A r \in Reqs :
          /\ Upserts(r)
               => /\ docs'[jar.id].Data.vals =
                       Serialize(req[r].sess.Values, req[r].sess.ValuesNil)
                  /\ docs'[jar.id].Data.vals = req'[r].saveArg
          /\ (\A p \in Reqs : ~Upserts(p)) => docs' = docs
          /\ req'[r] # req[r] => \A p \in Reqs \ {r} : req'[p] = req[p]
          /\ \A k \in Keys :
               (Returned(r, "Get") /\ req[r].nops = 0 /\ req'[r].lastCall.key = k
                  /\ req'[r].getErr = NoError /\ req'[r].loadErr = NoError)
                 => req'[r].lastCall.ret = MapGet(docs[jar.id].Data.vals, k)]_vars

\* A lost update: both requests loaded the session before either saved,
\* one set a key and the other added a flash, both Saves succeeded, and the
\* document holds the values of one of them without the other's change.
C26_Witness ==
  /\ BothSaved
  /\ \E r \in Reqs, p \in Reqs :
       /\ DOMAIN req[r].saveArg = {FlashKey}
       /\ DOMAIN req[p].saveArg = Keys
       /\ docs[jar.id].Data.vals = req[r].saveArg

====
